---- MODULE Spec2Model ----
(***************************************************************************)
(* Model of src/src/langchain_examples/langchain_langgraph_starter.py:     *)
(* the three-agent LangGraph pipeline (classifier -> keyword_agent ->      *)
(* summarizer -> END), the functions that drive it (main /                 *)
(* test_different_texts, test_agents_team) and the visualization export.   *)
(*                                                                         *)
(* Strings are sequences of one-character strings, so that str.strip,      *)
(* str.split(",") and ", ".join are computed character by character.       *)
(* A TeamState channel is an option: <<>> when the key is absent from the  *)
(* state dict and <<v>> when it holds v.                                   *)
(***************************************************************************)
EXTENDS Naturals, Sequences, FiniteSets

VARIABLES
    llm,        \* the backend behind llm.invoke: node -> set of reply contents
    entry,      \* which function was called: "main", "test_agents_team", "run"
    pc,         \* position in that function
    idx,        \* test_different_texts: 1-based index of the text being processed
    node,       \* the graph node about to run: "idle", a node name, "END", "raised"
    state,      \* TeamState channels of the current team.invoke
    prompt,     \* the fields the last agent interpolated into its prompt
    result,     \* what the last completed team.invoke returned (option)
    output,     \* stdout: the sequence of printed lines
    error,      \* the exception raised, "none" when there is none
    viz,        \* how save_graph_visualization ended, "none" before it ran
    calls,      \* history: llm.invoke calls of the current team.invoke
    writes,     \* history: number of writes to each channel in the current team.invoke
    agents,     \* history: values current_agent has held in the current team.invoke
    runs,       \* history: number of team.invoke calls started
    run_mark    \* history: Len(output) when the current team.invoke started

vars == <<llm, entry, pc, idx, node, state, prompt, result, output, error, viz,
          calls, writes, agents, runs, run_mark>>

-----------------------------------------------------------------------------
(* Bounds of the stubbed backend used by the run entry point.              *)

MaxReplyLen == 2
MaxKwLen == 4

-----------------------------------------------------------------------------
(* Strings.                                                                *)

Str(n, alphabet) == UNION {[1..k -> alphabet] : k \in 0..n}

IsSpace(c) == c = " "

RECURSIVE lstrip(_)
lstrip(s) == IF s # <<>> /\ IsSpace(Head(s)) THEN lstrip(Tail(s)) ELSE s

RECURSIVE rstrip(_)
rstrip(s) ==
    IF s # <<>> /\ IsSpace(s[Len(s)]) THEN rstrip(SubSeq(s, 1, Len(s) - 1)) ELSE s

strip(s) == rstrip(lstrip(s))

FirstComma(s) == CHOOSE k \in 1..Len(s) : s[k] = "," /\ \A j \in 1..(k - 1) : s[j] # ","

RECURSIVE split(_)
split(s) ==
    IF \A k \in 1..Len(s) : s[k] # ","
    THEN <<s>>
    ELSE LET k == FirstComma(s)
         IN  <<SubSeq(s, 1, k - 1)>> \o split(SubSeq(s, k + 1, Len(s)))

RECURSIVE join(_, _)
join(sep, items) ==
    IF items = <<>> THEN <<>>
    ELSE IF Len(items) = 1 THEN items[1]
    ELSE items[1] \o sep \o join(sep, Tail(items))

Take(items, n) == SubSeq(items, 1, IF Len(items) < n THEN Len(items) ELSE n)

-----------------------------------------------------------------------------
(* TeamState.                                                              *)

Fields == {"original_text", "category", "important_terms", "summary", "current_agent"}

None == <<>>
Some(v) == <<v>>
Val(o) == o[1]

NoWrites == [f \in Fields |-> 0]
EmptyState == [f \in Fields |-> None]

-----------------------------------------------------------------------------
(* Program constants.                                                      *)

News == <<"N", "e", "w", "s">>
PersonalBlog == <<"P", "e", "r", "s", "o", "n", "a", "l", " ", "B", "l", "o", "g">>
TechnicalArticle ==
    <<"T", "e", "c", "h", "n", "i", "c", "a", "l", " ", "A", "r", "t", "i", "c", "l", "e">>
Marketing == <<"M", "a", "r", "k", "e", "t", "i", "n", "g">>
Educational == <<"E", "d", "u", "c", "a", "t", "i", "o", "n", "a", "l">>
Other == <<"O", "t", "h", "e", "r">>

\* the six labels the classifier prompt lists
Categories == {News, PersonalBlog, TechnicalArticle, Marketing, Educational, Other}

\* the texts dict of test_different_texts, in insertion order; a text is opaque
\* to the program, so each is one token
texts == << <<"text:Personal Blog">>, <<"text:News">>, <<"text:Technical Article">> >>
NumTexts == 3

sample_text == <<"text:sample">>

\* variant: set_entry_point names keyword_agent
EntryPoint_Keywords == "keyword_agent"

\* the graph create_agents_team builds
EntryPoint == "classifier"

\* variant: the edge keyword_agent -> summarizer replaced by keyword_agent -> END
NextNode_SkipSummarizer(n) ==
    CASE n = "classifier" -> "keyword_agent"
      [] n = "keyword_agent" -> "END"
      [] n = "summarizer" -> "END"

NextNode(n) ==
    CASE n = "classifier" -> "keyword_agent"
      [] n = "keyword_agent" -> "summarizer"
      [] n = "summarizer" -> "END"

\* variant: a node that raised is run again
AfterFailure_Retry(n) == n

\* where a run goes when a node raises: no retry policy and no error edge is
\* declared, so the exception leaves team.invoke
AfterFailure(n) == "raised"

-----------------------------------------------------------------------------
(* stdout.                                                                 *)

Line(kind, payload) == <<kind, payload>>
Static(kind) == Line(kind, <<>>)

Kinds(lines) == [i \in 1..Len(lines) |-> lines[i][1]]

-----------------------------------------------------------------------------
(* team.invoke: the channels start from the input dict alone; a node's     *)
(* returned dict overwrites the channels it names.                         *)

Apply(st, upd) == [f \in Fields |-> IF f \in DOMAIN upd THEN Some(upd[f]) ELSE st[f]]

Count(w, upd) == [f \in Fields |-> IF f \in DOMAIN upd THEN w[f] + 1 ELSE w[f]]

Seen(a, upd) == IF "current_agent" \in DOMAIN upd THEN Append(a, upd["current_agent"]) ELSE a

\* variant: the channels of the previous invoke are kept
invoke_state_Stale(input) == Apply(state, input)

invoke_state(input) == Apply(EmptyState, input)

Invoke(input, out) ==
    /\ state' = invoke_state(input)
    /\ writes' = Count(NoWrites, input)
    /\ agents' = Seen(<<>>, input)
    /\ node' = EntryPoint
    /\ calls' = <<>>
    /\ runs' = runs + 1
    /\ output' = out
    /\ run_mark' = Len(out)
    /\ prompt' = [node |-> "none", fields |-> <<>>]

-----------------------------------------------------------------------------
(* The agents.                                                             *)

\* the state keys each agent's f-string subscripts
Reads(n) ==
    CASE n = "classifier" -> {"original_text"}
      [] n = "keyword_agent" -> {"category", "original_text"}
      [] n = "summarizer" -> {"category", "important_terms", "original_text"}

\* what the f-string interpolates for key f: None when the key is absent
Interpolate(f) ==
    IF state[f] = None THEN None
    ELSE IF f = "important_terms" THEN Some(join(<<",", " ">>, Val(state[f])))
    ELSE state[f]

BuildPrompt(n) == [node |-> n, fields |-> [f \in Reads(n) |-> Interpolate(f)]]

\* variant: the reply taken without .strip()
ParseCategory_NoStrip(content) == content

ParseCategory(content) == strip(content)

\* variant: empty keywords filtered out of the list
ParseKeywords_DropEmpty(content) ==
    SelectSeq([i \in 1..Len(split(strip(content))) |-> strip(split(strip(content))[i])],
              LAMBDA kw : kw # <<>>)

ParseKeywords(content) ==
    LET keywords_text == strip(content)
        pieces == split(keywords_text)
    IN  [i \in 1..Len(pieces) |-> strip(pieces[i])]

ParseSummary(content) == strip(content)

ClassifierUpdate(content) ==
    [category |-> ParseCategory(content), current_agent |-> "Classifier"]

KeywordsUpdate(content) ==
    [important_terms |-> ParseKeywords(content), current_agent |-> "Keywords"]

\* variant: the summarizer returns category again with its own keys
SummarizerUpdate_WholeState(content) ==
    [category |-> Val(state["category"]), summary |-> ParseSummary(content),
     current_agent |-> "Summarizer"]

SummarizerUpdate(content) ==
    [summary |-> ParseSummary(content), current_agent |-> "Summarizer"]

ClassifierProgress(upd) == <<Line("category_identified", upd.category)>>
KeywordsProgress(upd) == <<Line("keywords", upd.important_terms)>>
SummarizerProgress(upd) == <<Line("summary", upd.summary)>>

\* the two lines an agent prints before it builds its prompt
Banner(n) ==
    CASE n = "classifier" ->
           <<Static("classifier_analyzing"), Static("classifier_specialty")>>
      [] n = "keyword_agent" ->
           <<Static("keywords_analyzing"), Static("keywords_specialty")>>
      [] n = "summarizer" ->
           <<Static("summarizer_analyzing"), Static("summarizer_specialty")>>

\* the dict agent n returns for a reply
Update(n, content) ==
    CASE n = "classifier" -> ClassifierUpdate(content)
      [] n = "keyword_agent" -> KeywordsUpdate(content)
      [] n = "summarizer" -> SummarizerUpdate(content)

\* the line agent n prints before it returns
Progress(n, upd) ==
    CASE n = "classifier" -> ClassifierProgress(upd)
      [] n = "keyword_agent" -> KeywordsProgress(upd)
      [] n = "summarizer" -> SummarizerProgress(upd)

\* one node of the graph: the banner, the prompt (KeyError on an absent key),
\* llm.invoke (a reply or an exception), the parse, the progress line, and the
\* returned dict applied to the channels
RunAgent(n) ==
    /\ node = n
    /\ error = "none"
    /\ LET p == BuildPrompt(n)
           out1 == output \o Banner(n)
       IN  /\ prompt' = p
           /\ IF \E f \in DOMAIN p.fields : p.fields[f] = None
              THEN /\ error' = "KeyError"
                   /\ node' = "raised"
                   /\ output' = out1
                   /\ UNCHANGED <<state, calls, writes, agents>>
              ELSE \E ok \in BOOLEAN : \E content \in (IF ok THEN llm[n] ELSE {<<>>}) :
                     /\ calls' = Append(calls, [node |-> n, ok |-> ok, content |-> content])
                     /\ IF ok
                        THEN LET upd == Update(n, content)
                             IN  /\ state' = Apply(state, upd)
                                 /\ writes' = Count(writes, upd)
                                 /\ agents' = Seen(agents, upd)
                                 /\ output' = out1 \o Progress(n, upd)
                                 /\ node' = NextNode(n)
                                 /\ error' = error
                        ELSE /\ node' = AfterFailure(n)
                             /\ error' = IF AfterFailure(n) = "raised"
                                         THEN "ModelError" ELSE error
                             /\ output' = out1
                             /\ UNCHANGED <<state, writes, agents>>
    /\ UNCHANGED <<llm, entry, pc, idx, result, viz, runs, run_mark>>

agent_classifier == RunAgent("classifier")

agent_keywords == RunAgent("keyword_agent")

agent_summarizer == RunAgent("summarizer")

create_agents_team == <<Static("assembling_team"), Static("team_ready")>>

-----------------------------------------------------------------------------
(* main and test_different_texts.                                          *)

TipsLines ==
    <<Static("rule"), Static("tips"), Static("tips_check_outputs"), Static("rule")>>

\* variant: the except clause reports the category it has before the error
ExceptLines_PartialReport(e) ==
    (IF state["category"] # None
     THEN <<Line("report_category", Val(state["category"]))>> ELSE <<>>)
    \o <<Line("error", <<e>>), Static("hint_make_sure_ollama"), Static("hint_ollama_run")>>

ExceptLines(e) ==
    <<Line("error", <<e>>), Static("hint_make_sure_ollama"), Static("hint_ollama_run")>>

ReportLines(r) ==
    <<Line("report_category", Val(r["category"])),
      Line("report_keywords", join(<<",", " ">>, Take(Val(r["important_terms"]), 3))),
      Line("report_summary", Val(r["summary"]))>>

\* main up to the first team.invoke: its banner, then test_different_texts
\* creates the team and prints its heading
main_start ==
    /\ entry = "main"
    /\ pc = "start"
    /\ error = "none"
    /\ output' = output
                 \o <<Static("system_banner"), Static("system_subtitle"), Static("rule")>>
                 \o create_agents_team
                 \o <<Static("rule"), Static("testing_different_texts"), Static("rule")>>
    /\ idx' = 1
    /\ pc' = "loop"
    /\ UNCHANGED <<llm, entry, node, state, prompt, result, error, viz,
                   calls, writes, agents, runs, run_mark>>

\* one iteration of the for loop, up to team.invoke
test_different_texts_invoke ==
    /\ entry = "main"
    /\ pc = "loop"
    /\ error = "none"
    /\ idx <= NumTexts
    /\ Invoke([original_text |-> texts[idx]],
              output \o <<Static("testing"), Line("text", Take(texts[idx], 60)),
                          Static("dashes")>>)
    /\ pc' = "invoking"
    /\ UNCHANGED <<llm, entry, idx, result, error, viz>>

\* team.invoke returned: the three result lines, then the next iteration
test_different_texts_report ==
    /\ entry = "main"
    /\ pc = "invoking"
    /\ node = "END"
    /\ error = "none"
    /\ result' = Some(state)
    /\ output' = output \o ReportLines(state)
    /\ idx' = idx + 1
    /\ node' = "idle"
    /\ pc' = "loop"
    /\ UNCHANGED <<llm, entry, state, prompt, error, viz, calls, writes, agents,
                   runs, run_mark>>

\* the loop is exhausted: test_different_texts returns, main prints the tips
main_tips ==
    /\ entry = "main"
    /\ pc = "loop"
    /\ error = "none"
    /\ idx > NumTexts
    /\ output' = output \o TipsLines
    /\ pc' = "done"
    /\ UNCHANGED <<llm, entry, idx, node, state, prompt, result, error, viz,
                   calls, writes, agents, runs, run_mark>>

\* variant: the except clause prints and re-raises
main_except_Reraise ==
    /\ entry = "main"
    /\ pc \notin {"done", "raised"}
    /\ error # "none"
    /\ output' = output \o ExceptLines(error)
    /\ pc' = "raised"
    /\ UNCHANGED <<llm, entry, idx, node, state, prompt, result, error, viz,
                   calls, writes, agents, runs, run_mark>>

\* main's except Exception clause
main_except ==
    /\ entry = "main"
    /\ pc \notin {"done", "raised"}
    /\ error # "none"
    /\ output' = output \o ExceptLines(error)
    /\ pc' = "done"
    /\ UNCHANGED <<llm, entry, idx, node, state, prompt, result, error, viz,
                   calls, writes, agents, runs, run_mark>>

-----------------------------------------------------------------------------
(* test_agents_team and save_graph_visualization.                          *)

VizOutcomes == {"makedirs_failed", "draw_failed", "write_failed", "saved"}

test_agents_team_start ==
    /\ entry = "test_agents_team"
    /\ pc = "start"
    /\ error = "none"
    /\ output' = output
                 \o <<Static("rule"), Static("team_in_action"), Static("rule")>>
                 \o create_agents_team
    /\ pc' = "viz"
    /\ UNCHANGED <<llm, entry, idx, node, state, prompt, result, error, viz,
                   calls, writes, agents, runs, run_mark>>

\* os.makedirs runs before the try block; draw_mermaid_png, open and write
\* run inside it
save_graph_visualization ==
    /\ entry = "test_agents_team"
    /\ pc = "viz"
    /\ error = "none"
    /\ \E outcome \in VizOutcomes :
         /\ viz' = outcome
         /\ IF outcome = "makedirs_failed"
            THEN /\ error' = "OSError"
                 /\ UNCHANGED <<output, pc>>
            ELSE /\ output' = output
                              \o <<Static("generating_visualization")>>
                              \o (IF outcome = "saved"
                                  THEN <<Static("graph_saved")>>
                                  ELSE <<Line("visualization_error", <<outcome>>)>>)
                 /\ pc' = "invoke"
                 /\ error' = error
    /\ UNCHANGED <<llm, entry, idx, node, state, prompt, result,
                   calls, writes, agents, runs, run_mark>>

test_agents_team_invoke ==
    /\ entry = "test_agents_team"
    /\ pc = "invoke"
    /\ error = "none"
    /\ Invoke([original_text |-> sample_text, current_agent |-> "Starting"],
              output \o <<Static("text_for_analysis"), Line("text", sample_text),
                          Static("dashes"), Static("starting_analysis")>>)
    /\ pc' = "invoking"
    /\ UNCHANGED <<llm, entry, idx, result, error, viz>>

FinalReportLines(r) ==
    <<Static("rule"), Static("team_final_report"), Static("rule"),
      Line("report_category", Val(r["category"])),
      Line("report_keywords", join(<<",", " ">>, Val(r["important_terms"]))),
      Line("report_summary", Val(r["summary"])),
      Line("report_last_agent", Val(r["current_agent"])),
      Static("analysis_completed")>>

test_agents_team_report ==
    /\ entry = "test_agents_team"
    /\ pc = "invoking"
    /\ node = "END"
    /\ error = "none"
    /\ result' = Some(state)
    /\ output' = output \o FinalReportLines(state)
    /\ node' = "idle"
    /\ pc' = "done"
    /\ UNCHANGED <<llm, entry, idx, state, prompt, error, viz, calls, writes,
                   agents, runs, run_mark>>

-----------------------------------------------------------------------------
(* The compiled team invoked on its own, against a stubbed backend.        *)

InputTexts == {texts[1], sample_text}

run_invoke ==
    /\ entry = "run"
    /\ pc = "start"
    /\ error = "none"
    /\ \E t \in InputTexts : Invoke([original_text |-> t], output)
    /\ pc' = "invoking"
    /\ UNCHANGED <<llm, entry, idx, result, error, viz>>

run_return ==
    /\ entry = "run"
    /\ pc = "invoking"
    /\ node = "END"
    /\ error = "none"
    /\ result' = Some(state)
    /\ node' = "idle"
    /\ pc' = "done"
    /\ UNCHANGED <<llm, entry, idx, state, prompt, output, error, viz, calls,
                   writes, agents, runs, run_mark>>

\* an exception nothing catches leaves the function that was called
raise_uncaught ==
    /\ entry # "main"
    /\ pc \notin {"done", "raised"}
    /\ error # "none"
    /\ pc' = "raised"
    /\ UNCHANGED <<llm, entry, idx, node, state, prompt, result, output, error, viz,
                   calls, writes, agents, runs, run_mark>>

-----------------------------------------------------------------------------
(* Backends.                                                               *)

\* replies of a live backend: a listed label, an unlisted one padded with
\* whitespace, three and five keywords, a bare and a padded summary
SampleBackend ==
    [classifier |-> {News, <<" ", "x", " ">>},
     keyword_agent |-> {<<"a", ",", " ", "b", ",", "c">>,
                        <<" ", "a", ",", "b", ",", " ", "c", ",", "d", " ", ",", "e", " ">>},
     summarizer |-> {<<"s">>, <<" ", "s", ",", "t", " ">>}]

\* the stub: every reply up to a length
StubBackend ==
    [classifier |-> {News, <<" ">> \o Other} \cup Str(MaxReplyLen, {"x", " "}),
     keyword_agent |-> Str(MaxKwLen, {"a", " ", ","}),
     summarizer |-> Str(MaxReplyLen, {"s", " "})]

-----------------------------------------------------------------------------
(* Specifications.                                                         *)

InitCommon ==
    /\ pc = "start"
    /\ idx = 0
    /\ node = "idle"
    /\ state = EmptyState
    /\ prompt = [node |-> "none", fields |-> <<>>]
    /\ result = None
    /\ output = <<>>
    /\ error = "none"
    /\ viz = "none"
    /\ calls = <<>>
    /\ writes = NoWrites
    /\ agents = <<>>
    /\ runs = 0
    /\ run_mark = 0

Init ==
    /\ llm = SampleBackend
    /\ entry \in {"main", "test_agents_team"}
    /\ InitCommon

Next ==
    \/ main_start
    \/ test_different_texts_invoke
    \/ test_different_texts_report
    \/ main_tips
    \/ main_except
    \/ test_agents_team_start
    \/ save_graph_visualization
    \/ test_agents_team_invoke
    \/ test_agents_team_report
    \/ raise_uncaught
    \/ agent_classifier
    \/ agent_keywords
    \/ agent_summarizer

Spec == Init /\ [][Next]_vars

\* the program is single-threaded and sequential: whatever statement is next
\* runs, and a model call that is made returns or raises
FairSpec == Spec /\ WF_vars(Next)

InitRun ==
    /\ llm = StubBackend
    /\ entry = "run"
    /\ InitCommon

NextRun ==
    \/ run_invoke
    \/ run_return
    \/ raise_uncaught
    \/ agent_classifier
    \/ agent_keywords
    \/ agent_summarizer

SpecRun == InitRun /\ [][NextRun]_vars

-----------------------------------------------------------------------------
(* Vocabulary of the properties.                                           *)

IsPrefix(a, b) == Len(a) <= Len(b) /\ SubSeq(b, 1, Len(a)) = a

StageNodes == <<"classifier", "keyword_agent", "summarizer">>
StageLabels == <<"Classifier", "Keywords", "Summarizer">>

CallNodes == [i \in 1..Len(calls) |-> calls[i].node]

\* the values current_agent took after the caller's input
AgentsOfStages ==
    IF agents # <<>> /\ agents[1] = "Starting" THEN Tail(agents) ELSE agents

Populated(st) == \A f \in Fields : st[f] # None

\* the lines printed since the current team.invoke started
RunLines == SubSeq(output, run_mark + 1, Len(output))

CountKind(lines, kind) == Cardinality({i \in 1..Len(lines) : lines[i][1] = kind})

\* t is r without its leading and trailing whitespace
IsTrimOf(t, r) ==
    \E i, j \in 0..Len(r) :
        /\ i + j <= Len(r)
        /\ t = SubSeq(r, i + 1, Len(r) - j)
        /\ \A k \in 1..i : IsSpace(r[k])
        /\ \A k \in (Len(r) - j + 1)..Len(r) : IsSpace(r[k])
        /\ (t = <<>> \/ (~IsSpace(t[1]) /\ ~IsSpace(t[Len(t)])))

NumCommas(r) == Cardinality({k \in 1..Len(r) : r[k] = ","})

\* the position of the i-th comma of r; 0 before the first, Len(r) + 1 after the last
CommaAt(r, i) ==
    IF i = 0 THEN 0
    ELSE IF i > NumCommas(r) THEN Len(r) + 1
    ELSE CHOOSE k \in 1..Len(r) :
            r[k] = "," /\ Cardinality({j \in 1..k : r[j] = ","}) = i

\* the i-th comma-separated piece of r
Piece(r, i) == SubSeq(r, CommaAt(r, i - 1) + 1, CommaAt(r, i) - 1)

\* terms is the comma-split of r, piece by piece, each piece trimmed
IsSplitTrimOf(terms, r) ==
    /\ Len(terms) = NumCommas(r) + 1
    /\ \A i \in 1..Len(terms) : IsTrimOf(terms[i], Piece(r, i))

-----------------------------------------------------------------------------
(* C1: a run whose three model calls all reply reaches END, having run the *)
(* stages once each in the order classifier, keyword_agent, summarizer:    *)
(* current_agent takes "Classifier", "Keywords", "Summarizer" in that      *)
(* order and no other stage label, and at END all five fields are set.     *)

C1_Order ==
    /\ IsPrefix(AgentsOfStages, StageLabels)
    /\ IsPrefix(CallNodes, StageNodes)
    /\ node = "END" =>
         /\ AgentsOfStages = StageLabels
         /\ CallNodes = StageNodes
         /\ \A i \in 1..3 : calls[i].ok
         /\ Populated(state)
         /\ state["current_agent"] = Some("Summarizer")

C1_PipelineReachesDone ==
    /\ []C1_Order
    /\ (node = "classifier") ~> (node = "END" \/ error = "ModelError")

C1_Witness ==
    /\ entry = "main"
    /\ runs = 2
    /\ node = "END"
    /\ agents = StageLabels

-----------------------------------------------------------------------------
(* C2: when the model call of stage N fails, stage N is not run again and  *)
(* no later stage runs: the model was called exactly N times, the failed   *)
(* call is the last one, and the exception leaves team.invoke with no      *)
(* record returned.                                                        *)

C2_FailureAbortsRun ==
    \A i \in 1..Len(calls) :
        ~calls[i].ok =>
            /\ i = Len(calls)
            /\ CallNodes = SubSeq(StageNodes, 1, i)
            /\ \A j \in 1..(i - 1) : calls[j].ok
            /\ error = "ModelError"
            /\ node = "raised"
            /\ result # Some(state)

C2_Witness ==
    /\ entry = "main"
    /\ pc = "done"
    /\ Len(calls) = 2
    /\ ~calls[2].ok
    /\ runs = 2

-----------------------------------------------------------------------------
(* C3 as stated: when a stage's model call fails, none of the values the   *)
(* completed stages computed (category, keywords) is written to stdout.    *)

C3_NoStageValuePrinted ==
    error = "ModelError" =>
        \A i \in 1..Len(RunLines) :
            RunLines[i][1] \notin {"category_identified", "keywords"}

(* C3 amended: a failed run prints no report line; the values of the       *)
(* completed stages are on stdout, in those stages' own progress lines     *)
(* and nowhere else; once main has caught the error, the run's output ends *)
(* with the error message followed by the two hint lines, printed once.    *)

ValueKinds ==
    {"category_identified", "keywords", "summary",
     "report_category", "report_keywords", "report_summary", "report_last_agent"}

ValueLines(lines) == SelectSeq(lines, LAMBDA l : l[1] \in ValueKinds)

ProgressOfCompleted ==
    (IF Len(calls) > 1 THEN <<Line("category_identified", Val(state["category"]))>> ELSE <<>>)
    \o (IF Len(calls) > 2 THEN <<Line("keywords", Val(state["important_terms"]))>> ELSE <<>>)

C3_NoReportOnFailure ==
    error = "ModelError" =>
        /\ ValueLines(RunLines) = ProgressOfCompleted
        /\ (entry = "main" /\ pc = "done") =>
             /\ Len(RunLines) >= 3
             /\ SubSeq(RunLines, Len(RunLines) - 2, Len(RunLines))
                  = <<Line("error", <<"ModelError">>), Static("hint_make_sure_ollama"),
                      Static("hint_ollama_run")>>
             /\ CountKind(output, "error") = 1
             /\ CountKind(output, "hint_make_sure_ollama") = 1
             /\ CountKind(output, "hint_ollama_run") = 1

C3_Witness ==
    /\ entry = "main"
    /\ pc = "done"
    /\ error = "ModelError"
    /\ Len(calls) = 3
    /\ Len(ValueLines(RunLines)) = 2

-----------------------------------------------------------------------------
(* C4: for every triple of replies (r1, r2, r3) the record the run returns *)
(* has category = r1 trimmed, important_terms = the comma-split pieces of  *)
(* r2 each trimmed, summary = r3 trimmed, current_agent = "Summarizer" and *)
(* original_text = the input, whether or not r1 is one of the six labels.  *)

C4_RecordFromReplies ==
    (entry = "run" /\ pc = "done") =>
        /\ result # None
        /\ Len(calls) = 3
        /\ LET r == Val(result)
           IN  /\ Populated(r)
               /\ IsTrimOf(Val(r["category"]), calls[1].content)
               /\ IsSplitTrimOf(Val(r["important_terms"]), calls[2].content)
               /\ IsTrimOf(Val(r["summary"]), calls[3].content)
               /\ r["current_agent"] = Some("Summarizer")
               /\ Val(r["original_text"]) \in InputTexts
               /\ prompt.fields["original_text"] = r["original_text"]

C4_Witness ==
    /\ entry = "run"
    /\ pc = "done"
    /\ result # None
    /\ Val(Val(result)["category"]) \notin Categories
    /\ Val(Val(result)["category"]) # calls[1].content
    /\ Val(Val(result)["category"]) # <<>>
    /\ Val(Val(result)["summary"]) # calls[3].content

-----------------------------------------------------------------------------
(* C5: important_terms is the sequence of the reply's comma-separated      *)
(* pieces, each trimmed, in the reply's order; its length is the number of *)
(* commas plus one, whatever that number is.                               *)

C5_KeywordParsing ==
    (Len(calls) >= 2 /\ calls[2].ok) =>
        /\ state["important_terms"] # None
        /\ LET terms == Val(state["important_terms"])
               reply == calls[2].content
           IN  /\ Len(terms) = NumCommas(reply) + 1
               /\ \A i \in 1..Len(terms) :
                    /\ IsTrimOf(terms[i], Piece(reply, i))
                    /\ \A k \in 1..Len(terms[i]) : terms[i][k] # ","

C5_Witness ==
    /\ Len(calls) = 2
    /\ calls[2].ok
    /\ NumCommas(calls[2].content) = 2
    /\ Len(Val(state["important_terms"])) = 3
    /\ Val(state["important_terms"])[1] # <<>>
    /\ Val(state["important_terms"])[1] # Piece(calls[2].content, 1)

-----------------------------------------------------------------------------
(* C6 as stated: within one run every field of the record is written at    *)
(* most once.                                                              *)

C6_EveryFieldWrittenOnce == \A f \in Fields : writes[f] <= 1

(* C6 amended: every field except current_agent is written at most once    *)
(* per run and never overwritten, in the order category, important_terms,  *)
(* summary; current_agent is rewritten by every stage.                     *)

C6_WriteOnceExceptCurrentAgent ==
    /\ \A f \in Fields \ {"current_agent"} :
         /\ writes[f] <= 1
         /\ (state[f] # None) <=> (writes[f] = 1)
    /\ state["important_terms"] # None => state["category"] # None
    /\ state["summary"] # None => state["important_terms"] # None
    /\ writes["current_agent"] = Len(agents)
    /\ Len(AgentsOfStages) = Cardinality({i \in 1..Len(calls) : calls[i].ok})

C6_Witness ==
    /\ node = "END"
    /\ writes["current_agent"] = 3
    /\ writes["summary"] = 1

-----------------------------------------------------------------------------
(* C7: no agent reads a key that is absent from the state: the classifier  *)
(* reads original_text only, keyword_agent reads category after the        *)
(* classifier wrote it, the summarizer reads category and important_terms  *)
(* after both were written; also when the input holds original_text only.  *)

C7_NoReadOfAbsentKey ==
    /\ error # "KeyError"
    /\ \A f \in DOMAIN prompt.fields : prompt.fields[f] # None
    /\ prompt.node = "classifier" => DOMAIN prompt.fields = {"original_text"}
    /\ prompt.node = "keyword_agent" =>
         /\ Len(calls) >= 1 /\ calls[1].node = "classifier" /\ calls[1].ok
         /\ prompt.fields["category"] = Some(ParseCategory(calls[1].content))
    /\ prompt.node = "summarizer" =>
         /\ Len(calls) >= 2 /\ calls[2].node = "keyword_agent" /\ calls[2].ok
         /\ calls[1].node = "classifier" /\ calls[1].ok
         /\ writes["category"] = 1 /\ writes["important_terms"] = 1

C7_Witness ==
    /\ entry = "main"
    /\ prompt.node = "summarizer"
    /\ writes["current_agent"] = 3
    /\ DOMAIN prompt.fields = {"category", "important_terms", "original_text"}

-----------------------------------------------------------------------------
(* C8: a failure at any step of the visualization export (creating the     *)
(* directory, rendering the graph, writing the file) raises nothing out of *)
(* save_graph_visualization, so the pipeline is still invoked.             *)

C8_ExportFailureNeverAborts ==
    viz \in {"makedirs_failed", "draw_failed", "write_failed"} =>
        /\ error # "OSError"
        /\ ~(pc = "raised" /\ runs = 0)

-----------------------------------------------------------------------------
(* C9: every run starts from a record in which category, important_terms   *)
(* and summary are absent, and the record a run ends with is determined by *)
(* that run's text and that run's three replies alone.                     *)

C9_RunsShareNoState ==
    /\ node = EntryPoint =>
         /\ calls = <<>>
         /\ \A f \in {"category", "important_terms", "summary"} : state[f] = None
    /\ (entry = "main" /\ node = "END") =>
         /\ state["original_text"] = Some(texts[runs])
         /\ IsTrimOf(Val(state["category"]), calls[1].content)
         /\ IsSplitTrimOf(Val(state["important_terms"]), calls[2].content)
         /\ IsTrimOf(Val(state["summary"]), calls[3].content)

C9_Witness ==
    /\ entry = "main"
    /\ runs = 2
    /\ node = "END"
    /\ result # None
    /\ \A f \in {"original_text", "category", "important_terms", "summary"} :
         Val(result)[f] # state[f]

-----------------------------------------------------------------------------
(* C10: when the run for the k-th text fails, main starts no run for a     *)
(* later text, keeps what it printed for the earlier texts, prints the     *)
(* error and the hint once, does not print the tips, and returns normally. *)

C10_AfterFailure ==
    entry = "main" =>
        /\ pc # "raised"
        /\ CountKind(output, "error") <= 1
        /\ CountKind(output, "error") = 1 =>
             /\ pc = "done"
             /\ error # "none"
             /\ runs = idx
             /\ CountKind(output, "testing") = idx
             /\ CountKind(output, "report_category") = idx - 1
             /\ CountKind(output, "report_keywords") = idx - 1
             /\ CountKind(output, "report_summary") = idx - 1
             /\ CountKind(output, "hint_make_sure_ollama") = 1
             /\ CountKind(output, "hint_ollama_run") = 1
             /\ CountKind(output, "tips") = 0
        /\ (error # "none" /\ pc = "done") => CountKind(output, "error") = 1

C10_MainStopsAtFirstFailure ==
    /\ []C10_AfterFailure
    /\ [][pc # "done" /\ pc # "raised" /\ IsPrefix(output, output')]_vars

C10_Witness ==
    /\ entry = "main"
    /\ pc = "done"
    /\ error = "ModelError"
    /\ idx = 2
    /\ CountKind(output, "report_summary") = 1
    /\ CountKind(output, "error") = 1

====
